---- MODULE Spec2Model ----
\* Book-catalogue backend: the reviews, review-likes, comments and library
\* handlers of src/routers, over a relational store.
\*
\* Spec      every handler is one atomic step (the handlers are `async def`
\*           bodies with no await: one worker runs each to completion).
\* ConcSpec  create_review / like_review / unlike_review as their separate
\*           store operations (query, query, commit), interleaved between
\*           requests served by different workers on the same store.
EXTENDS Integers, Sequences, FiniteSets, TLC

\* ------------------------------------------------------------------ bounds
NUsers == 2
NBooks == 1
MaxReviewId == 2
MaxLikeId == 2
MaxCommentId == 1
MaxLibraryId == 1
MaxClock == 1
MaxPage == 2
NProcs == 2
MaxNewUsers == 2

\* ------------------------------------------------------- program constants
MinContentLen == 1
MinRating == 1
MaxRating == 5
MinPage == 1
MinSize == 1
MaxSize == 100
MinLimit == 1
MaxLimit == 50

\* ------------------------------------------------------------------ inputs
Users == 1..NUsers
Books == 1..NBooks
\* book_id path parameter: 0 is an id with no Book row
BookIdInputs == 0..NBooks
ReviewIdInputs == 1..MaxReviewId
PageInputs == 0..MaxPage
SizeInputs == {MinSize - 1, MinSize, MinSize + 1, MaxSize, MaxSize + 1}
LimitInputs == {MinLimit - 1, MinLimit, MinLimit + 1, MaxLimit, MaxLimit + 1}
Procs == 1..NProcs
UserIdInputs == 1..(NUsers + MaxNewUsers)

\* Optional[T]: <<>> is None, <<v>> is the value v
None == <<>>
Some(v) == <<v>>

VARIABLES
    deleted,        \* Book rows whose deleted_at is not null
    reviews,        \* Review rows
    likes,          \* ReviewLike rows
    comments,       \* Comment rows
    library,        \* LibraryItem rows
    clock,          \* datetime.now()
    nextId,         \* the store's next surrogate key, per table
    resp,           \* the response to the request handled by the last step
    inflight,       \* ConcSpec: the requests in progress, one per worker
    users,          \* User rows
    history         \* the successful like/unlike calls so far: per user and review
                    \* the last one, per review the likes less the unlikes

vars == <<deleted, reviews, likes, comments, library, clock, nextId, resp, inflight,
          users, history>>
store == <<deleted, reviews, likes, comments, library>>

\* ----------------------------------------------------------------- helpers
Max(a, b) == IF a >= b THEN a ELSE b
Min(a, b) == IF a <= b THEN a ELSE b

\* math.ceil(n / d) for n >= 0, d >= 1
Ceil(n, d) == (n + d - 1) \div d

\* The arrangements of the rows S in a sequence: what a query over S may
\* return before its ORDER BY is applied.
Perms(S) ==
    {s \in [1..Cardinality(S) -> S] :
        \A i, j \in 1..Cardinality(S) : i # j => s[i] # s[j]}

\* .offset(offset).limit(n) of an ordered result
OffsetLimit(s, offset, n) ==
    [i \in 1..Max(0, Min(n, Len(s) - offset)) |-> s[offset + i]]

\* ----------------------------------------------------- response envelope
NoResp == [op |-> "none", req |-> <<>>, status |-> 0, code |-> "NONE", payload |-> <<>>]

ErrorResponse(op, req, status, code) ==
    [op |-> op, req |-> req, status |-> status, code |-> code, payload |-> <<>>]

APIResponse(op, req, status, payload) ==
    [op |-> op, req |-> req, status |-> status, code |-> "SUCCESS", payload |-> payload]

\* A request whose body or query parameters fail validation never reaches
\* the handler: the framework answers 422.
ValidationError(op, req) == ErrorResponse(op, req, 422, "VALIDATION_ERROR")

\* ------------------------------------------------------------------- store
Idle == [pc |-> "idle"]

\* The role column of a User row: its default, and the role the admin
\* endpoints filter out.
DefaultRole == "user"
AdminRole == "admin"

\* hash_password(password): the stored value is not the password
hash_password(password) == "bcrypt:" \o password

\* User(email=..., password_hash=..., name=...) as stored under the key id
NewUser(id, email, password, name) ==
    [id |-> id, email |-> email, password_hash |-> hash_password(password),
     name |-> name, role |-> DefaultRole]

\* The accounts of the principals Users, registered before the first request.
RegisteredUsers ==
    {NewUser(u, "user" \o ToString(u) \o "@x", "pw", "user" \o ToString(u)) : u \in Users}

Init ==
    /\ deleted = {}
    /\ reviews = {}
    /\ likes = {}
    /\ comments = {}
    /\ library = {}
    /\ clock = 0
    /\ nextId = [review |-> 1, like |-> 1, comment |-> 1, library |-> 1,
                 user |-> NUsers + 1]
    /\ resp = NoResp
    /\ inflight = [p \in Procs |-> Idle]
    /\ users = RegisteredUsers
    /\ history = [last |-> [k \in Users \X ReviewIdInputs |-> "none"],
                  net |-> [r \in ReviewIdInputs |-> 0]]

\* db.add(row); db.commit(): the tables carry no uniqueness constraint beyond
\* the surrogate key, so an insert always adds the row.
InsertRow(table, row) == table \cup {row}

\* db.delete(row); db.commit(): removes that row and no other (no cascade).
DeleteRow(table, row) == table \ {row}

\* datetime.now() / the store's default for a creation time
ServerNow == clock

\* db.query(Book).filter(Book.id == book_id, Book.deleted_at.is_(None)).first()
BookQuery(book_id) ==
    IF book_id \in Books /\ book_id \notin deleted THEN Some(book_id) ELSE None

\* db.query(Review).filter(Review.id == review_id).first()
ReviewQuery(review_id) == {r \in reviews : r.id = review_id}

\* ExistingReview with the two filter arguments swapped
ExistingReview_swapped(user_id, book_id) ==
    {r \in reviews : r.user_id = book_id /\ r.book_id = user_id}

\* db.query(Review).filter(user_id == ..., book_id == ...)
ExistingReview(user_id, book_id) ==
    {r \in reviews : r.user_id = user_id /\ r.book_id = book_id}

\* ExistingLike without the filter on the caller
ExistingLike_anyuser(user_id, review_id) ==
    {l \in likes : l.review_id = review_id}

\* db.query(ReviewLike).filter(user_id == ..., review_id == ...)
ExistingLike(user_id, review_id) ==
    {l \in likes : l.user_id = user_id /\ l.review_id = review_id}

\* db.query(LibraryItem).filter(user_id == ..., book_id == ...)
ExistingItem(user_id, book_id) ==
    {i \in library : i.user_id = user_id /\ i.book_id = book_id}

\* db.query(Review).filter(Review.book_id == book_id)
ReviewsOfBook(book_id) == {r \in reviews : r.book_id = book_id}

\* db.query(User).filter(User.id == user_id).first(): the display name
UserName(user_id) == "user" \o ToString(user_id)

AuthorName(user_id) == IF user_id \in Users THEN UserName(user_id) ELSE "Unknown"

\* The rows as the handlers build them, with the key the store assigns. A
\* Review's created_at and updated_at start at the time of the insert; the
\* creation time of the other rows is only ever echoed in the response to the
\* insert (ServerNow), so it is not kept in the row.
NewReview(user_id, book_id, content, rating) ==
    [id |-> nextId.review, user_id |-> user_id, book_id |-> book_id,
     content |-> content, rating |-> rating,
     created_at |-> ServerNow, updated_at |-> ServerNow]

NewLike(user_id, review_id) ==
    [id |-> nextId.like, user_id |-> user_id, review_id |-> review_id]

NewComment(user_id, book_id, content) ==
    [id |-> nextId.comment, user_id |-> user_id, book_id |-> book_id,
     content |-> content]

NewLibraryItem(user_id, book_id) ==
    [id |-> nextId.library, user_id |-> user_id, book_id |-> book_id]

\* ---------------------------------------------------------- request schemas
\* ReviewCreate: content min_length=1, rating ge=1 le=5
ReviewCreate(content, rating) ==
    /\ Len(content) >= MinContentLen
    /\ rating >= MinRating
    /\ rating <= MaxRating

\* ReviewUpdate with the rating left unconstrained.
ReviewUpdate_anyrating(content, rating) ==
    content # None => Len(content[1]) >= MinContentLen

\* ReviewUpdate: both optional, each validated when present
ReviewUpdate(content, rating) ==
    /\ content # None => Len(content[1]) >= MinContentLen
    /\ rating # None => (rating[1] >= MinRating /\ rating[1] <= MaxRating)

\* CommentCreate: content min_length=1
CommentCreate(content) == Len(content) >= MinContentLen

\* ------------------------------------------------------ handlers (atomic)
CreateReq(user, book_id, content, rating) ==
    [user |-> user, book_id |-> book_id, content |-> content, rating |-> rating]

\* POST /api/books/{book_id}/reviews
create_review(user, book_id, content, rating) ==
    LET req == CreateReq(user, book_id, content, rating)
        new_review == NewReview(user, book_id, content, rating)
    IN
    /\ IF ~ReviewCreate(content, rating)
       THEN /\ resp' = ValidationError("create_review", req)
            /\ UNCHANGED <<reviews, nextId>>
       ELSE IF BookQuery(book_id) = None
       THEN /\ resp' = ErrorResponse("create_review", req, 404, "BOOK_NOT_FOUND")
            /\ UNCHANGED <<reviews, nextId>>
       ELSE IF ExistingReview(user, book_id) # {}
       THEN /\ resp' = ErrorResponse("create_review", req, 409, "DUPLICATE_REVIEW")
            /\ UNCHANGED <<reviews, nextId>>
       ELSE /\ nextId.review <= MaxReviewId
            /\ reviews' = InsertRow(reviews, new_review)
            /\ nextId' = [nextId EXCEPT !.review = @ + 1]
            /\ resp' = APIResponse("create_review", req, 201,
                        [id |-> new_review.id, created_at |-> new_review.created_at])
    /\ UNCHANGED <<deleted, likes, comments, library, clock, inflight>>

ReviewListItem(review) ==
    [id |-> review.id, author |-> [name |-> UserName(review.user_id)],
     content |-> review.content, rating |-> review.rating,
     created_at |-> review.created_at]

\* order_by(Review.created_at.desc()): r1 may come before r2
CreatedDesc(r1, r2) == r1.created_at >= r2.created_at

\* the results the ordered query may return: rows of equal created_at come
\* in an order the store chooses
ByCreatedDesc(S) ==
    {s \in Perms(S) : \A i, j \in 1..Len(s) : i < j => CreatedDesc(s[i], s[j])}

\* TotalPages with floor division in place of math.ceil
TotalPages_floor(total_elements, size) ==
    IF total_elements > 0 THEN total_elements \div size ELSE 1

\* total_pages = math.ceil(total_elements / size) if total_elements > 0 else 1
TotalPages(total_elements, size) ==
    IF total_elements > 0 THEN Ceil(total_elements, size) ELSE 1

\* PageOf with the offset page - 1, not multiplied by the page size
PageOf_rowoffset(ordered, page, size) == OffsetLimit(ordered, page - 1, size)

\* the reviews of one page: offset (page - 1) * size, limit size
PageOf(ordered, page, size) == OffsetLimit(ordered, (page - 1) * size, size)

\* GET /api/books/{book_id}/reviews?page=&size=
get_reviews(book_id, page, size) ==
    LET req == [book_id |-> book_id, page |-> page, size |-> size]
        total_elements == Cardinality(ReviewsOfBook(book_id))
    IN
    /\ IF page < MinPage \/ size < MinSize \/ size > MaxSize
       THEN resp' = ValidationError("get_reviews", req)
       ELSE IF BookQuery(book_id) = None
       THEN resp' = ErrorResponse("get_reviews", req, 404, "BOOK_NOT_FOUND")
       ELSE \E ordered \in ByCreatedDesc(ReviewsOfBook(book_id)) :
            LET page_rows == PageOf(ordered, page, size) IN
            resp' = APIResponse("get_reviews", req, 200,
                [reviews |-> [i \in 1..Len(page_rows) |-> ReviewListItem(page_rows[i])],
                 pagination |-> [page |-> page,
                                 totalPages |-> TotalPages(total_elements, size),
                                 totalElements |-> total_elements]])
    /\ UNCHANGED <<deleted, reviews, likes, comments, library, clock, nextId, inflight>>

\* IsOwner comparing the review's id, not its user_id, with the caller
IsOwner_byid(review, user) == review.id = user

\* review.user_id != current_user.id is the FORBIDDEN case
IsOwner(review, user) == review.user_id = user

\* ApplyUpdate with the rating update nested under the content update
ApplyUpdate_nested(review, content, rating) ==
    [review EXCEPT
        !.content = IF content # None THEN content[1] ELSE @,
        !.rating = IF content # None /\ rating # None THEN rating[1] ELSE @,
        !.updated_at = ServerNow]

\* the field updates: each field only when supplied; updated_at always
ApplyUpdate(review, content, rating) ==
    [review EXCEPT
        !.content = IF content # None THEN content[1] ELSE @,
        !.rating = IF rating # None THEN rating[1] ELSE @,
        !.updated_at = ServerNow]

\* PATCH /api/reviews/{review_id}
update_review(user, review_id, content, rating) ==
    LET req == [user |-> user, review_id |-> review_id,
                content |-> content, rating |-> rating]
    IN
    /\ IF ~ReviewUpdate(content, rating)
       THEN /\ resp' = ValidationError("update_review", req)
            /\ UNCHANGED reviews
       ELSE IF ReviewQuery(review_id) = {}
       THEN /\ resp' = ErrorResponse("update_review", req, 404, "REVIEW_NOT_FOUND")
            /\ UNCHANGED reviews
       ELSE LET review == CHOOSE r \in ReviewQuery(review_id) : TRUE IN
            IF ~IsOwner(review, user)
            THEN /\ resp' = ErrorResponse("update_review", req, 403, "FORBIDDEN")
                 /\ UNCHANGED reviews
            ELSE LET updated == ApplyUpdate(review, content, rating)
                 IN /\ reviews' = (reviews \ {review}) \cup {updated}
                    /\ resp' = APIResponse("update_review", req, 200,
                                [id |-> updated.id, updated_at |-> updated.updated_at])
    /\ UNCHANGED <<deleted, likes, comments, library, clock, nextId, inflight>>

\* delete_review removing the review's likes along with the review.
delete_review_withlikes(user, review_id) ==
    LET req == [user |-> user, review_id |-> review_id] IN
    /\ IF ReviewQuery(review_id) = {}
       THEN /\ resp' = ErrorResponse("delete_review", req, 404, "REVIEW_NOT_FOUND")
            /\ UNCHANGED <<reviews, likes>>
       ELSE LET review == CHOOSE r \in ReviewQuery(review_id) : TRUE IN
            IF ~IsOwner(review, user)
            THEN /\ resp' = ErrorResponse("delete_review", req, 403, "FORBIDDEN")
                 /\ UNCHANGED <<reviews, likes>>
            ELSE /\ reviews' = DeleteRow(reviews, review)
                 /\ likes' = {l \in likes : l.review_id # review.id}
                 /\ resp' = APIResponse("delete_review", req, 200, [id |-> review.id])
    /\ UNCHANGED <<deleted, comments, library, clock, nextId, inflight>>

\* DELETE /api/reviews/{review_id}
delete_review(user, review_id) ==
    LET req == [user |-> user, review_id |-> review_id] IN
    /\ IF ReviewQuery(review_id) = {}
       THEN /\ resp' = ErrorResponse("delete_review", req, 404, "REVIEW_NOT_FOUND")
            /\ UNCHANGED reviews
       ELSE LET review == CHOOSE r \in ReviewQuery(review_id) : TRUE IN
            IF ~IsOwner(review, user)
            THEN /\ resp' = ErrorResponse("delete_review", req, 403, "FORBIDDEN")
                 /\ UNCHANGED reviews
            ELSE /\ reviews' = DeleteRow(reviews, review)
                 /\ resp' = APIResponse("delete_review", req, 200, [id |-> review.id])
    /\ UNCHANGED <<deleted, likes, comments, library, clock, nextId, inflight>>

\* POST /api/reviews/{review_id}/like
like_review(user, review_id) ==
    LET req == [user |-> user, review_id |-> review_id]
        new_like == NewLike(user, review_id)
    IN
    /\ IF ReviewQuery(review_id) = {}
       THEN /\ resp' = ErrorResponse("like_review", req, 404, "REVIEW_NOT_FOUND")
            /\ UNCHANGED <<likes, nextId>>
       ELSE IF ExistingLike(user, review_id) # {}
       THEN /\ resp' = ErrorResponse("like_review", req, 409, "DUPLICATE_LIKE")
            /\ UNCHANGED <<likes, nextId>>
       ELSE /\ nextId.like <= MaxLikeId
            /\ likes' = InsertRow(likes, new_like)
            /\ nextId' = [nextId EXCEPT !.like = @ + 1]
            /\ resp' = APIResponse("like_review", req, 201,
                        [review_id |-> new_like.review_id,
                         created_at |-> ServerNow])
    /\ UNCHANGED <<deleted, reviews, comments, library, clock, inflight>>

\* DELETE /api/reviews/{review_id}/like
unlike_review(user, review_id) ==
    LET req == [user |-> user, review_id |-> review_id] IN
    /\ IF ExistingLike(user, review_id) = {}
       THEN /\ resp' = ErrorResponse("unlike_review", req, 404, "LIKE_NOT_FOUND")
            /\ UNCHANGED likes
       ELSE \E like \in ExistingLike(user, review_id) :
            /\ likes' = DeleteRow(likes, like)
            /\ resp' = APIResponse("unlike_review", req, 200, <<>>)
    /\ UNCHANGED <<deleted, reviews, comments, library, clock, nextId, inflight>>

\* LikeCount counting the likes of every review.
LikeCount_all(review) == Cardinality(likes)

\* func.count(ReviewLike.review_id) over the outer join, grouped by Review.id
LikeCount(review) == Cardinality({l \in likes : l.review_id = review.id})

\* TopOrder with the tie broken by created_at ascending
TopOrder_oldestfirst(r1, r2) ==
    \/ LikeCount(r1) > LikeCount(r2)
    \/ LikeCount(r1) = LikeCount(r2) /\ r1.created_at <= r2.created_at

\* order_by(like_count.desc(), Review.created_at.desc())
TopOrder(r1, r2) ==
    \/ LikeCount(r1) > LikeCount(r2)
    \/ LikeCount(r1) = LikeCount(r2) /\ r1.created_at >= r2.created_at

\* the results the ranked query may return
ByTopOrder(S) ==
    {s \in Perms(S) : \A i, j \in 1..Len(s) : i < j => TopOrder(s[i], s[j])}

TopReviewItem(review) ==
    [id |-> review.id, author |-> [name |-> AuthorName(review.user_id)],
     content |-> review.content, rating |-> review.rating,
     like_count |-> LikeCount(review), created_at |-> review.created_at]

\* GET /api/books/{book_id}/reviews/top?limit=
get_top_reviews(book_id, limit) ==
    LET req == [book_id |-> book_id, limit |-> limit] IN
    /\ IF limit < MinLimit \/ limit > MaxLimit
       THEN resp' = ValidationError("get_top_reviews", req)
       ELSE IF BookQuery(book_id) = None
       THEN resp' = ErrorResponse("get_top_reviews", req, 404, "BOOK_NOT_FOUND")
       ELSE \E ordered \in ByTopOrder(ReviewsOfBook(book_id)) :
            LET rows == OffsetLimit(ordered, 0, limit) IN
            resp' = APIResponse("get_top_reviews", req, 200,
                [reviews |-> [i \in 1..Len(rows) |-> TopReviewItem(rows[i])]])
    /\ UNCHANGED <<deleted, reviews, likes, comments, library, clock, nextId, inflight>>

\* POST /api/books/{book_id}/comments
create_comment(user, book_id, content) ==
    LET req == [user |-> user, book_id |-> book_id, content |-> content]
        new_comment == NewComment(user, book_id, content)
    IN
    /\ IF ~CommentCreate(content)
       THEN /\ resp' = ValidationError("create_comment", req)
            /\ UNCHANGED <<comments, nextId>>
       ELSE IF BookQuery(book_id) = None
       THEN /\ resp' = ErrorResponse("create_comment", req, 404, "BOOK_NOT_FOUND")
            /\ UNCHANGED <<comments, nextId>>
       ELSE /\ nextId.comment <= MaxCommentId
            /\ comments' = InsertRow(comments, new_comment)
            /\ nextId' = [nextId EXCEPT !.comment = @ + 1]
            /\ resp' = APIResponse("create_comment", req, 201,
                        [id |-> new_comment.id, created_at |-> ServerNow])
    /\ UNCHANGED <<deleted, reviews, likes, library, clock, inflight>>

\* POST /api/me/library
add_to_library(user, book_id) ==
    LET req == [user |-> user, book_id |-> book_id]
        new_item == NewLibraryItem(user, book_id)
    IN
    /\ IF BookQuery(book_id) = None
       THEN /\ resp' = ErrorResponse("add_to_library", req, 404, "BOOK_NOT_FOUND")
            /\ UNCHANGED <<library, nextId>>
       ELSE IF ExistingItem(user, book_id) # {}
       THEN /\ resp' = ErrorResponse("add_to_library", req, 409, "DUPLICATE_LIBRARY_ITEM")
            /\ UNCHANGED <<library, nextId>>
       ELSE /\ nextId.library <= MaxLibraryId
            /\ library' = InsertRow(library, new_item)
            /\ nextId' = [nextId EXCEPT !.library = @ + 1]
            /\ resp' = APIResponse("add_to_library", req, 201,
                        [bookId |-> new_item.book_id, createdAt |-> ServerNow])
    /\ UNCHANGED <<deleted, reviews, likes, comments, clock, inflight>>

\* ------------------------------------------------------------- environment
\* Time passes between requests.
Tick ==
    /\ clock < MaxClock
    /\ clock' = clock + 1
    /\ resp' = NoResp
    /\ UNCHANGED <<deleted, reviews, likes, comments, library, nextId, inflight>>

\* A book is soft-deleted: its deleted_at is set; its rows stay.
soft_delete_book(book_id) ==
    /\ book_id \in Books \ deleted
    /\ deleted' = deleted \cup {book_id}
    /\ resp' = NoResp
    /\ UNCHANGED <<reviews, likes, comments, library, clock, nextId, inflight>>

\* ----------------------------------------------------------- user handlers
\* db.query(User).filter(User.email == user.email).first()
ExistingUser(email) == {u \in users : u.email = email}

\* UserCreateResponse / UserGetMeResponse.model_validate(user): the account
\* without its password hash
UserGetMeResponse(user) ==
    [id |-> user.id, email |-> user.email, name |-> user.name, role |-> user.role]

\* POST /api/users/
create_user(email, password, name) ==
    LET req == [email |-> email, name |-> name]
        new_user == NewUser(nextId.user, email, password, name)
    IN
    /\ IF ExistingUser(email) # {}
       THEN /\ resp' = ErrorResponse("create_user", req, 409, "DUPLICATE_EMAIL")
            /\ UNCHANGED <<users, nextId>>
       ELSE /\ nextId.user <= NUsers + MaxNewUsers
            /\ users' = InsertRow(users, new_user)
            /\ nextId' = [nextId EXCEPT !.user = @ + 1]
            /\ resp' = APIResponse("create_user", req, 201, UserGetMeResponse(new_user))
    /\ UNCHANGED <<deleted, reviews, likes, comments, library, clock, inflight, history>>

\* get_current_admin_user: the principal of an admin endpoint is an account
\* whose role is admin; any other request is rejected before the handler.
IsAdmin(user_id) == \E u \in users : u.id = user_id /\ u.role = AdminRole

\* db.query(User).filter(User.role != "admin")
NonAdminUsers == {u \in users : u.role # "admin"}

\* GET /api/users/
get_users(current_user) ==
    /\ IsAdmin(current_user)
    /\ \E rows \in Perms(NonAdminUsers) :
        resp' = APIResponse("get_users", [current_user |-> current_user], 200,
                    [i \in 1..Len(rows) |-> UserGetMeResponse(rows[i])])
    /\ UNCHANGED <<deleted, reviews, likes, comments, library, clock, nextId, inflight,
                   users, history>>

\* The lookup by id without the role filter.
UserByIdQuery_anyrole(user_id) == {u \in users : u.id = user_id}

\* db.query(User).filter(User.id == user_id, User.role != "admin")
UserByIdQuery(user_id) == {u \in users : u.id = user_id /\ u.role # "admin"}

\* GET /api/users/{user_id}
get_user_by_id(current_user, user_id) ==
    LET req == [current_user |-> current_user, user_id |-> user_id] IN
    /\ IsAdmin(current_user)
    /\ IF UserByIdQuery(user_id) = {}
       THEN resp' = ErrorResponse("get_user_by_id", req, 404, "USER_NOT_FOUND")
       ELSE \E user \in UserByIdQuery(user_id) :
                resp' = APIResponse("get_user_by_id", req, 200, UserGetMeResponse(user))
    /\ UNCHANGED <<deleted, reviews, likes, comments, library, clock, nextId, inflight,
                   users, history>>

\* An account is made an administrator: its role column is set to admin.
grant_admin(user_id) ==
    /\ \E u \in users : u.id = user_id /\ u.role # AdminRole
    /\ users' = {IF u.id = user_id THEN [u EXCEPT !.role = AdminRole] ELSE u : u \in users}
    /\ resp' = NoResp
    /\ UNCHANGED <<deleted, reviews, likes, comments, library, clock, nextId, inflight,
                   history>>

\* The history of like_review and unlike_review calls: the step that answers
\* a call successfully records it as the last one of its user on its review,
\* and counts it for the review (a like adds one, an unlike takes one away).
RecordCall(user, review_id, op) ==
    history' = IF resp'.op = op /\ resp'.status \in {200, 201}
               THEN [last |-> [history.last EXCEPT ![<<user, review_id>>] = op],
                     net |-> [history.net EXCEPT ![review_id] =
                                IF op = "like_review" THEN @ + 1 ELSE @ - 1]]
               ELSE history

\* ------------------------------------- handlers as separate store steps
\* One request per worker; each step is one store operation of the handler
\* (a query, or the commit), so the steps of different requests interleave.
Begin(p, op, req) ==
    /\ inflight[p] = Idle
    /\ inflight' = [inflight EXCEPT ![p] = [pc |-> "start", op |-> op, req |-> req]]
    /\ UNCHANGED <<deleted, reviews, likes, comments, library, clock, nextId, resp>>

At(p, op, pc) ==
    /\ inflight[p] # Idle
    /\ inflight[p].op = op
    /\ inflight[p].pc = pc

Goto(p, pc) == inflight' = [inflight EXCEPT ![p].pc = pc]

Return(p, response) ==
    /\ inflight' = [inflight EXCEPT ![p] = Idle]
    /\ resp' = response

\* create_review: the book query
create_review_book(p) ==
    /\ At(p, "create_review", "start")
    /\ IF BookQuery(inflight[p].req.book_id) = None
       THEN Return(p, ErrorResponse("create_review", inflight[p].req, 404, "BOOK_NOT_FOUND"))
       ELSE Goto(p, "check") /\ UNCHANGED resp
    /\ UNCHANGED <<deleted, reviews, likes, comments, library, clock, nextId>>

\* create_review: the duplicate query
create_review_check(p) ==
    /\ At(p, "create_review", "check")
    /\ IF ExistingReview(inflight[p].req.user, inflight[p].req.book_id) # {}
       THEN Return(p, ErrorResponse("create_review", inflight[p].req, 409, "DUPLICATE_REVIEW"))
       ELSE Goto(p, "commit") /\ UNCHANGED resp
    /\ UNCHANGED <<deleted, reviews, likes, comments, library, clock, nextId>>

\* create_review: db.add, db.commit, db.refresh
create_review_commit(p) ==
    LET req == inflight[p].req
        new_review == NewReview(req.user, req.book_id, req.content, req.rating)
    IN
    /\ At(p, "create_review", "commit")
    /\ nextId.review <= MaxReviewId
    /\ reviews' = InsertRow(reviews, new_review)
    /\ nextId' = [nextId EXCEPT !.review = @ + 1]
    /\ Return(p, APIResponse("create_review", req, 201,
                [id |-> new_review.id, created_at |-> new_review.created_at]))
    /\ UNCHANGED <<deleted, likes, comments, library, clock>>

\* like_review: the review query
like_review_review(p) ==
    /\ At(p, "like_review", "start")
    /\ IF ReviewQuery(inflight[p].req.review_id) = {}
       THEN Return(p, ErrorResponse("like_review", inflight[p].req, 404, "REVIEW_NOT_FOUND"))
       ELSE Goto(p, "check") /\ UNCHANGED resp
    /\ UNCHANGED <<deleted, reviews, likes, comments, library, clock, nextId>>

\* like_review: the duplicate query
like_review_check(p) ==
    /\ At(p, "like_review", "check")
    /\ IF ExistingLike(inflight[p].req.user, inflight[p].req.review_id) # {}
       THEN Return(p, ErrorResponse("like_review", inflight[p].req, 409, "DUPLICATE_LIKE"))
       ELSE Goto(p, "commit") /\ UNCHANGED resp
    /\ UNCHANGED <<deleted, reviews, likes, comments, library, clock, nextId>>

\* like_review: db.add, db.commit, db.refresh
like_review_commit(p) ==
    LET req == inflight[p].req
        new_like == NewLike(req.user, req.review_id)
    IN
    /\ At(p, "like_review", "commit")
    /\ nextId.like <= MaxLikeId
    /\ likes' = InsertRow(likes, new_like)
    /\ nextId' = [nextId EXCEPT !.like = @ + 1]
    /\ Return(p, APIResponse("like_review", req, 201,
                [review_id |-> new_like.review_id, created_at |-> ServerNow]))
    /\ UNCHANGED <<deleted, reviews, comments, library, clock>>

\* unlike_review: the like query
unlike_review_query(p) ==
    /\ At(p, "unlike_review", "start")
    /\ IF ExistingLike(inflight[p].req.user, inflight[p].req.review_id) = {}
       THEN Return(p, ErrorResponse("unlike_review", inflight[p].req, 404, "LIKE_NOT_FOUND"))
       ELSE /\ \E like \in ExistingLike(inflight[p].req.user, inflight[p].req.review_id) :
                inflight' = [inflight EXCEPT ![p] =
                                [pc |-> "commit", op |-> "unlike_review",
                                 req |-> inflight[p].req, like |-> like]]
            /\ UNCHANGED resp
    /\ UNCHANGED <<deleted, reviews, likes, comments, library, clock, nextId>>

\* unlike_review: db.delete, db.commit (a row already gone deletes nothing)
unlike_review_commit(p) ==
    /\ At(p, "unlike_review", "commit")
    /\ likes' = DeleteRow(likes, inflight[p].like)
    /\ Return(p, APIResponse("unlike_review", inflight[p].req, 200, <<>>))
    /\ UNCHANGED <<deleted, reviews, comments, library, clock, nextId>>

\* ---------------------------------------------------------- specifications
\* Inputs of each specification (valid and invalid values of every field).
SpecContents == {"", "a"}
SpecRatings == {MinRating, MaxRating + 1}
SpecOptContents == {None, Some(""), Some("b")}
SpecOptRatings == {None, Some(MinRating - 1), Some(MaxRating)}

\* Spec: the review handlers, one atomic step each.
Next ==
    \/ \E u \in Users, b \in BookIdInputs, c \in SpecContents, rt \in SpecRatings :
        create_review(u, b, c, rt)
            /\ UNCHANGED <<users, history>>
    \/ \E u \in Users, r \in ReviewIdInputs, c \in SpecOptContents, rt \in SpecOptRatings :
        update_review(u, r, c, rt)
            /\ UNCHANGED <<users, history>>
    \/ \E u \in Users, r \in ReviewIdInputs : delete_review(u, r)
            /\ UNCHANGED <<users, history>>
    \/ \E b \in Books : soft_delete_book(b)
            /\ UNCHANGED <<users, history>>
    \/ Tick /\ UNCHANGED <<users, history>>

Spec == Init /\ [][Next]_vars

\* ReadSpec: likes and the two listings over a store of reviews.
ReadNext ==
    \/ \E u \in Users, b \in BookIdInputs : create_review(u, b, "a", MaxRating)
            /\ UNCHANGED <<users, history>>
    \/ \E u \in Users, r \in ReviewIdInputs : delete_review(u, r)
            /\ UNCHANGED <<users, history>>
    \/ \E u \in Users, r \in ReviewIdInputs : like_review(u, r)
            /\ RecordCall(u, r, "like_review") /\ UNCHANGED users
    \/ \E u \in Users, r \in ReviewIdInputs : unlike_review(u, r)
            /\ RecordCall(u, r, "unlike_review") /\ UNCHANGED users
    \/ \E b \in BookIdInputs, pg \in PageInputs, sz \in SizeInputs :
        get_reviews(b, pg, sz)
            /\ UNCHANGED <<users, history>>
    \/ \E b \in BookIdInputs, lim \in LimitInputs : get_top_reviews(b, lim)
            /\ UNCHANGED <<users, history>>
    \/ Tick /\ UNCHANGED <<users, history>>

ReadSpec == Init /\ [][ReadNext]_vars

\* BookSpec: every handler, with books being soft-deleted.
BookNext ==
    \/ \E u \in Users, b \in BookIdInputs : create_review(u, b, "a", MinRating)
            /\ UNCHANGED <<users, history>>
    \/ \E u \in Users, r \in ReviewIdInputs : update_review(u, r, None, Some(MaxRating))
            /\ UNCHANGED <<users, history>>
    \/ \E u \in Users, r \in ReviewIdInputs : delete_review(u, r)
            /\ UNCHANGED <<users, history>>
    \/ \E u \in Users, r \in ReviewIdInputs : like_review(u, r)
            /\ RecordCall(u, r, "like_review") /\ UNCHANGED users
    \/ \E u \in Users, r \in ReviewIdInputs : unlike_review(u, r)
            /\ RecordCall(u, r, "unlike_review") /\ UNCHANGED users
    \/ \E b \in BookIdInputs : get_reviews(b, MinPage, MinSize)
            /\ UNCHANGED <<users, history>>
    \/ \E b \in BookIdInputs : get_top_reviews(b, MinLimit)
            /\ UNCHANGED <<users, history>>
    \/ \E u \in Users, b \in BookIdInputs : create_comment(u, b, "a")
            /\ UNCHANGED <<users, history>>
    \/ \E u \in Users, b \in BookIdInputs : add_to_library(u, b)
            /\ UNCHANGED <<users, history>>
    \/ \E b \in Books : soft_delete_book(b)
            /\ UNCHANGED <<users, history>>

BookSpec == Init /\ [][BookNext]_vars

\* ConcSpec: create_review, like_review and unlike_review requests served
\* concurrently, their store operations interleaving.
ConcNext ==
    \/ \E p \in Procs, u \in Users, b \in BookIdInputs :
        Begin(p, "create_review", CreateReq(u, b, "a", MinRating))
            /\ UNCHANGED <<users, history>>
    \/ \E p \in Procs, u \in Users, r \in ReviewIdInputs :
        Begin(p, "like_review", [user |-> u, review_id |-> r])
            /\ UNCHANGED <<users, history>>
    \/ \E p \in Procs, u \in Users, r \in ReviewIdInputs :
        Begin(p, "unlike_review", [user |-> u, review_id |-> r])
            /\ UNCHANGED <<users, history>>
    \/ \E p \in Procs : create_review_book(p)
            /\ UNCHANGED <<users, history>>
    \/ \E p \in Procs : create_review_check(p)
            /\ UNCHANGED <<users, history>>
    \/ \E p \in Procs : create_review_commit(p)
            /\ UNCHANGED <<users, history>>
    \/ \E p \in Procs : like_review_review(p)
            /\ UNCHANGED <<users, history>>
    \/ \E p \in Procs : like_review_check(p)
            /\ UNCHANGED <<users, history>>
    \/ \E p \in Procs : like_review_commit(p)
            /\ RecordCall(inflight[p].req.user, inflight[p].req.review_id, "like_review")
            /\ UNCHANGED users
    \/ \E p \in Procs : unlike_review_query(p)
            /\ UNCHANGED <<users, history>>
    \/ \E p \in Procs : unlike_review_commit(p)
            /\ RecordCall(inflight[p].req.user, inflight[p].req.review_id, "unlike_review")
            /\ UNCHANGED users

ConcSpec == Init /\ [][ConcNext]_vars

\* UserSpec: registration and the admin endpoints over the User table.
EmailInputs == {"user1@x", "new1@x", "new2@x"}

UserNext ==
    \/ \E e \in EmailInputs : create_user(e, "pw", "new")
    \/ \E a \in UserIdInputs : get_users(a)
    \/ \E a \in UserIdInputs, id \in UserIdInputs : get_user_by_id(a, id)
    \/ \E id \in UserIdInputs : grant_admin(id)

UserSpec == Init /\ [][UserNext]_vars

\* ================================================================== claims
\* What the claims speak of, stated on the rows themselves.
HasReview(u, b) == \E r \in reviews : r.user_id = u /\ r.book_id = b
ReviewExists(rid) == \E r \in reviews : r.id = rid
HasLike(u, rid) == \E l \in likes : l.user_id = u /\ l.review_id = rid
Active(b) == b \in Books /\ b \notin deleted
IsResp(r, op) == r.op = op
Succeeded(r) == r.status \in {200, 201}

\* C1: in every reachable state there is at most one Review row per
\* (user, book) pair, also when the duplicate query and the insert of
\* concurrent create_review requests interleave (ConcSpec).
C1_AtMostOneReviewPerPair ==
    \A r1, r2 \in reviews :
        (r1.user_id = r2.user_id /\ r1.book_id = r2.book_id) => r1 = r2

\* C2: once user U has a committed, undeleted review of active book B, a
\* (validated) create_review by U for B answers 409 DUPLICATE_REVIEW and
\* inserts no row.
C2_DuplicateReview ==
    [][\A u \in Users, b \in Books :
        ( /\ HasReview(u, b)
          /\ Active(b)
          /\ IsResp(resp', "create_review")
          /\ resp'.req.user = u
          /\ resp'.req.book_id = b
          /\ resp'.status # 422 )
        => ( /\ resp'.status = 409
             /\ resp'.code = "DUPLICATE_REVIEW"
             /\ reviews' = reviews )]_vars

C2_Witness ==
    /\ IsResp(resp, "create_review")
    /\ resp.code = "DUPLICATE_REVIEW"
    /\ HasReview(resp.req.user, resp.req.book_id)
    /\ Cardinality(reviews) = 1

\* C3: in every reachable state there is at most one ReviewLike row per
\* (user, review) pair, whatever the interleaving of like_review and
\* unlike_review requests (ConcSpec).
C3_AtMostOneLikePerPair ==
    \A l1, l2 \in likes :
        (l1.user_id = l2.user_id /\ l1.review_id = l2.review_id) => l1 = l2

\* C4: with requests handled one after another, like_review by U on an
\* existing review R answers 201 and adds U's like exactly when U has no like
\* on R, and 409 DUPLICATE_LIKE otherwise; unlike_review answers 200 and
\* removes the like exactly when U has one, and 404 LIKE_NOT_FOUND otherwise.
C4_LikeUnlike ==
    [][\A u \in Users, rid \in ReviewIdInputs :
        /\ ( /\ IsResp(resp', "like_review")
             /\ resp'.req = [user |-> u, review_id |-> rid]
             /\ ReviewExists(rid) )
           => IF ~HasLike(u, rid)
              THEN /\ resp'.status = 201
                   /\ HasLike(u, rid)'
                   /\ \A v \in Users, x \in ReviewIdInputs :
                        <<v, x>> # <<u, rid>> => (HasLike(v, x)' <=> HasLike(v, x))
              ELSE /\ resp'.status = 409
                   /\ resp'.code = "DUPLICATE_LIKE"
                   /\ likes' = likes
        /\ ( /\ IsResp(resp', "unlike_review")
             /\ resp'.req = [user |-> u, review_id |-> rid]
             /\ ReviewExists(rid) )
           => IF HasLike(u, rid)
              THEN /\ resp'.status = 200
                   /\ ~HasLike(u, rid)'
                   /\ \A v \in Users, x \in ReviewIdInputs :
                        <<v, x>> # <<u, rid>> => (HasLike(v, x)' <=> HasLike(v, x))
              ELSE /\ resp'.status = 404
                   /\ resp'.code = "LIKE_NOT_FOUND"
                   /\ likes' = likes]_vars

\* a like that succeeded after an earlier like was withdrawn: the only like
\* row is the second one ever inserted
C4_Witness ==
    /\ IsResp(resp, "like_review")
    /\ resp.status = 201
    /\ nextId.like = 3
    /\ Cardinality(likes) = 1
    /\ Cardinality(reviews) = 1

\* a validated get_reviews request for an active book
ValidGetReviews(r) ==
    /\ IsResp(r, "get_reviews")
    /\ r.req.page >= MinPage
    /\ r.req.size >= MinSize
    /\ r.req.size <= MaxSize
    /\ Active(r.req.book_id)

BookReviewCount(b) == Cardinality({r \in reviews : r.book_id = b})

\* C5: for an active book and valid page and size, get_reviews succeeds and
\* reports total_elements = the number of reviews of the book, and
\* total_pages = the least k with k * size >= total_elements, except 1 when
\* there are no reviews.
C5_Pagination ==
    ValidGetReviews(resp) =>
        LET n == BookReviewCount(resp.req.book_id)
            size == resp.req.size
            pg == resp.payload.pagination
        IN /\ resp.status = 200
           /\ pg.totalElements = n
           /\ IF n = 0
              THEN pg.totalPages = 1
              ELSE /\ pg.totalPages * size >= n
                   /\ (pg.totalPages - 1) * size < n

\* one review, two per page: a division that rounds up
C5_Witness ==
    /\ ValidGetReviews(resp)
    /\ resp.req.size = 2
    /\ resp.payload.pagination.totalElements = 1
    /\ resp.payload.pagination.totalPages = 1

\* C6: get_reviews for a page whose offset (page - 1) * size is at or beyond
\* the number of reviews succeeds with an empty list, with total_elements the
\* number of reviews, and with the same total_elements and total_pages as the
\* response to a request for the same book and size just before it.
C6_PageBeyondLast ==
    [][( /\ ValidGetReviews(resp')
         /\ (resp'.req.page - 1) * resp'.req.size >= BookReviewCount(resp'.req.book_id) )
       => /\ resp'.status = 200
          /\ resp'.payload.reviews = <<>>
          /\ resp'.payload.pagination.totalElements = BookReviewCount(resp'.req.book_id)
          /\ ( /\ ValidGetReviews(resp)
               /\ resp.req.book_id = resp'.req.book_id
               /\ resp.req.size = resp'.req.size )
             => /\ resp'.payload.pagination.totalElements
                    = resp.payload.pagination.totalElements
                /\ resp'.payload.pagination.totalPages
                    = resp.payload.pagination.totalPages]_vars

\* page 2 of 2 per page, past the reviews that exist
C6_Witness ==
    /\ ValidGetReviews(resp)
    /\ resp.req.page = 2
    /\ resp.req.size = 2
    /\ BookReviewCount(resp.req.book_id) = 2
    /\ resp.payload.reviews = <<>>
    /\ resp.payload.pagination.totalPages = 1

\* the row an item of a listing was built from
RowOf(item) == CHOOSE r \in reviews : r.id = item.id
LikesOn(rid) == Cardinality({l \in likes : l.review_id = rid})
\* item a may stand before review (lc, created) in the ranking
RanksBefore(a, lc, created) ==
    \/ a.like_count > lc
    \/ a.like_count = lc /\ a.created_at >= created

\* C7: get_top_reviews for an active book (valid limit) succeeds with
\* min(limit, number of reviews of the book) distinct reviews of that book,
\* each with like_count = its number of likes (0 when it has none), ordered
\* by like_count descending then created_at descending, and no review left
\* out ranks strictly before one returned.
C7_TopReviews ==
    ( /\ IsResp(resp, "get_top_reviews")
      /\ resp.req.limit >= MinLimit
      /\ resp.req.limit <= MaxLimit
      /\ Active(resp.req.book_id) )
    => LET b == resp.req.book_id
           items == resp.payload.reviews
           ids == {items[i].id : i \in 1..Len(items)}
       IN /\ resp.status = 200
          /\ Len(items) = Min(resp.req.limit, BookReviewCount(b))
          /\ Cardinality(ids) = Len(items)
          /\ \A i \in 1..Len(items) :
                /\ \E r \in reviews : r.id = items[i].id /\ r.book_id = b
                /\ items[i].like_count = LikesOn(items[i].id)
                /\ items[i].created_at = RowOf(items[i]).created_at
                /\ items[i].content = RowOf(items[i]).content
                /\ items[i].rating = RowOf(items[i]).rating
          /\ \A i, j \in 1..Len(items) :
                i < j => RanksBefore(items[i], items[j].like_count, items[j].created_at)
          /\ \A r \in reviews :
                (r.book_id = b /\ r.id \notin ids)
                => \A i \in 1..Len(items) :
                        RanksBefore(items[i], LikesOn(r.id), r.created_at)

\* two reviews with one like each: the newer one first
C7_Witness ==
    /\ IsResp(resp, "get_top_reviews")
    /\ resp.status = 200
    /\ Len(resp.payload.reviews) = 2
    /\ resp.payload.reviews[1].like_count = 1
    /\ resp.payload.reviews[2].like_count = 1
    /\ resp.payload.reviews[1].created_at > resp.payload.reviews[2].created_at

\* C8: a successful update_review changes, in the targeted review, the
\* content only if content was supplied and the rating only if rating was
\* supplied, sets updated_at to the current time, keeps id, user_id, book_id
\* and created_at, and changes no other row.
C8_UpdateFrame ==
    [][( /\ IsResp(resp', "update_review")
         /\ resp'.status = 200 )
       => \E old \in reviews, new \in reviews' :
            /\ old.id = resp'.req.review_id
            /\ new.id = old.id
            /\ reviews' \ {new} = reviews \ {old}
            /\ new.content = IF resp'.req.content # None
                             THEN resp'.req.content[1] ELSE old.content
            /\ new.rating = IF resp'.req.rating # None
                            THEN resp'.req.rating[1] ELSE old.rating
            /\ new.updated_at = clock
            /\ resp'.payload.updated_at = clock
            /\ new.user_id = old.user_id
            /\ new.book_id = old.book_id
            /\ new.created_at = old.created_at
            /\ UNCHANGED <<deleted, likes, comments, library>>]_vars

\* only the rating supplied, later than the creation: the content is the
\* one the review was created with
C8_Witness ==
    /\ IsResp(resp, "update_review")
    /\ resp.status = 200
    /\ resp.req.content = None
    /\ resp.req.rating = Some(MaxRating)
    /\ \E r \in reviews :
        /\ r.id = resp.req.review_id
        /\ r.content = "a"
        /\ r.rating = MaxRating
        /\ r.updated_at > r.created_at

\* C9: update_review (with a valid body) and delete_review answer 404
\* REVIEW_NOT_FOUND when no review has the id, whoever calls, and 403
\* FORBIDDEN when the caller is not the review's owner; in both cases no
\* review row is changed or removed.
C9_OwnerOnly ==
    [][( /\ resp'.op \in {"update_review", "delete_review"}
         /\ resp'.status # 422 )
       => /\ ~ReviewExists(resp'.req.review_id)
             => /\ resp'.status = 404
                /\ resp'.code = "REVIEW_NOT_FOUND"
                /\ reviews' = reviews
          /\ (\E r \in reviews : r.id = resp'.req.review_id /\ r.user_id # resp'.req.user)
             => /\ resp'.status = 403
                /\ resp'.code = "FORBIDDEN"
                /\ reviews' = reviews]_vars

C9_Witness ==
    /\ IsResp(resp, "update_review")
    /\ resp.code = "FORBIDDEN"
    /\ resp.req.content = Some("b")
    /\ \E r \in reviews :
        /\ r.id = resp.req.review_id
        /\ r.user_id # resp.req.user
        /\ r.content = "a"

\* C10: for a soft-deleted book, create_review, get_reviews,
\* get_top_reviews, create_comment and add_to_library answer BOOK_NOT_FOUND
\* and change nothing, and update_review, delete_review, like_review and
\* unlike_review on a review of that book neither succeed nor change the
\* store.
C10_SoftDeletedBook ==
    [][\A b \in deleted :
        /\ ( /\ resp'.op \in {"create_review", "get_reviews", "get_top_reviews",
                              "create_comment", "add_to_library"}
             /\ resp'.req.book_id = b
             /\ resp'.status # 422 )
           => /\ resp'.code = "BOOK_NOT_FOUND"
              /\ store' = store
        /\ ( /\ resp'.op \in {"update_review", "delete_review",
                              "like_review", "unlike_review"}
             /\ \E r \in reviews : r.id = resp'.req.review_id /\ r.book_id = b )
           => /\ ~Succeeded(resp')
              /\ store' = store]_vars

\* The part of C10 the handlers do keep: the five handlers that take a book
\* id answer BOOK_NOT_FOUND for a soft-deleted book and change nothing.
SoftDeletedBookById ==
    [][\A b \in deleted :
        ( /\ resp'.op \in {"create_review", "get_reviews", "get_top_reviews",
                           "create_comment", "add_to_library"}
          /\ resp'.req.book_id = b
          /\ resp'.status # 422 )
        => /\ resp'.status = 404
           /\ resp'.code = "BOOK_NOT_FOUND"
           /\ store' = store]_vars

\* ------------------------------------------------------------------- C11
\* The accounts whose role is admin, read from the User table itself.
AdminIds == {u.id : u \in {x \in users : x.role = "admin"}}
PlainIds == {u.id : u \in {x \in users : x.role # "admin"}}

\* C11: the admin user endpoints never disclose an admin account. get_users
\* answers with exactly the accounts whose role is not admin, each once;
\* get_user_by_id answers with the account when the id exists and its role is
\* not admin, and with 404 USER_NOT_FOUND when the id is absent or is an
\* admin's.
C11_AdminsNotDisclosed ==
    /\ IsResp(resp, "get_users") =>
        /\ resp.status = 200
        /\ {resp.payload[i].id : i \in 1..Len(resp.payload)} = PlainIds
        /\ Len(resp.payload) = Cardinality(PlainIds)
        /\ \A i \in 1..Len(resp.payload) :
            \E u \in users :
                /\ u.id = resp.payload[i].id
                /\ u.email = resp.payload[i].email
                /\ u.name = resp.payload[i].name
                /\ resp.payload[i].role # "admin"
    /\ IsResp(resp, "get_user_by_id") =>
        IF resp.req.user_id \in PlainIds
        THEN /\ resp.status = 200
             /\ resp.payload.id = resp.req.user_id
             /\ resp.payload.role # "admin"
             /\ \E u \in users : u.id = resp.payload.id /\ u.email = resp.payload.email
        ELSE /\ resp.status = 404
             /\ resp.code = "USER_NOT_FOUND"

\* An admin looks up another admin's account, which exists, and is answered
\* USER_NOT_FOUND.
C11_Witness ==
    /\ IsResp(resp, "get_user_by_id")
    /\ resp.req.user_id \in AdminIds
    /\ resp.req.user_id # resp.req.current_user
    /\ resp.status = 404
    /\ PlainIds # {}

\* ------------------------------------------------------------------- C12
\* C12: in every reachable state every stored Review has a content of at
\* least one character and an integer rating from 1 to 5, whatever
\* create_review and update_review requests came before (valid or invalid
\* bodies, updates supplying both fields, one, or none).
C12_StoredReviewValid ==
    \A r \in reviews :
        /\ Len(r.content) >= 1
        /\ r.rating \in 1..5

\* An update supplying neither field has succeeded on a review that an
\* earlier update had already changed.
C12_Witness ==
    /\ IsResp(resp, "update_review")
    /\ resp.status = 200
    /\ resp.req.content = None
    /\ resp.req.rating = None
    /\ \E r \in reviews :
        /\ r.id = resp.req.review_id
        /\ r.content = "b"
        /\ r.rating = MaxRating

\* ------------------------------------------------------------------- C13
\* The ids listed by a get_reviews response.
PageIds(r) == {r.payload.reviews[i].id : i \in 1..Len(r.payload.reviews)}

OkGetReviews(r) == IsResp(r, "get_reviews") /\ r.status = 200

\* The number of reviews of book b created after, and not before, time t.
NewerThan(b, t) == Cardinality({r \in reviews : r.book_id = b /\ r.created_at > t})
NotOlderThan(b, t) == Cardinality({r \in reviews : r.book_id = b /\ r.created_at >= t})

\* One page taken alone: it holds min(size, total - (page - 1) * size) of
\* the book's reviews (none when that is negative), each once, and the item
\* at position k = (page - 1) * size + i of the listing has fewer than k
\* reviews newer than it and at least k reviews not older than it, which
\* is to say it may stand at position k of the reviews in created_at
\* descending order.
PageIsSlice ==
    OkGetReviews(resp) =>
        LET b == resp.req.book_id
            size == resp.req.size
            first == (resp.req.page - 1) * size
            items == resp.payload.reviews
        IN /\ Len(items) = Max(0, Min(size, BookReviewCount(b) - first))
           /\ Cardinality(PageIds(resp)) = Len(items)
           /\ \A i \in 1..Len(items) :
                /\ \E r \in reviews : r.book_id = b /\ ReviewListItem(r) = items[i]
                /\ NewerThan(b, items[i].created_at) < first + i
                /\ NotOlderThan(b, items[i].created_at) >= first + i

\* C13: get_reviews for page p and size s returns the reviews at positions
\* (p - 1) * s + 1 .. min(p * s, total) of the book's reviews in created_at
\* descending order, so that the pages of one size, requested one after
\* another with no write in between, share no review and follow each other
\* in that order: two different pages of the same book and size have no
\* review in common.
C13_PagesPartition ==
    [][( /\ OkGetReviews(resp)
         /\ OkGetReviews(resp')
         /\ resp'.req.book_id = resp.req.book_id
         /\ resp'.req.size = resp.req.size
         /\ resp'.req.page # resp.req.page )
       => /\ PageIsSlice'
          /\ PageIds(resp) \cap PageIds(resp') = {}]_vars

\* ------------------------------------------------------------------- C14
\* C14: a successful delete_review removes the Review row with the requested
\* id and changes nothing else: every other Review row stays as it was, and
\* so does every ReviewLike row, the likes of the deleted review included
\* (and every row of the other tables).
C14_DeleteFrame ==
    [][( /\ IsResp(resp', "delete_review")
         /\ resp'.status = 200 )
       => /\ \E old \in reviews :
                /\ old.id = resp'.req.review_id
                /\ old.id = resp'.payload.id
                /\ reviews' = reviews \ {old}
          /\ \A r \in reviews' : r.id # resp'.req.review_id
          /\ likes' = likes
          /\ comments' = comments
          /\ library' = library
          /\ deleted' = deleted
          /\ users' = users]_vars

\* A review that carried a like has been deleted: the like is still stored,
\* and so is the other review.
C14_Witness ==
    /\ IsResp(resp, "delete_review")
    /\ resp.status = 200
    /\ ~ReviewExists(resp.req.review_id)
    /\ \E l \in likes : l.review_id = resp.req.review_id
    /\ \E r \in reviews : r.id # resp.req.review_id

\* ------------------------------------------------------------------- C15
\* The users whose last successful call on review rid was a like.
LastLiked(rid) == {u \in Users : history.last[<<u, rid>>] = "like_review"}

\* C15: with the calls handled one after another, the like_count that
\* get_top_reviews reports for a review is the number of users whose last
\* successful like_review / unlike_review call on it was a like_review, which
\* is the successful likes of the review less its successful unlikes, and it
\* is never negative.
C15_LikeCountHistory ==
    (IsResp(resp, "get_top_reviews") /\ resp.status = 200) =>
        \A i \in 1..Len(resp.payload.reviews) :
            LET item == resp.payload.reviews[i] IN
            /\ item.like_count = Cardinality(LastLiked(item.id))
            /\ item.like_count = history.net[item.id]
            /\ item.like_count >= 0

\* A listed review that one user liked and unliked and another user likes.
C15_Witness ==
    /\ IsResp(resp, "get_top_reviews")
    /\ resp.status = 200
    /\ \E i \in 1..Len(resp.payload.reviews) :
        LET item == resp.payload.reviews[i] IN
        /\ item.like_count = 1
        /\ \E u \in Users : history.last[<<u, item.id>>] = "unlike_review"
        /\ \E u \in Users : history.last[<<u, item.id>>] = "like_review"

====
